---------------------------- MODULE Spec2Model ----------------------------
(***************************************************************************)
(* Model of src/src/graphics.rs and src/src/main.rs: the GPU object        *)
(* wrappers (VertexArray, Buffer, Shader, ShaderProgram), the GL facade     *)
(* (setup, draw_frame) and the host's event loop.                           *)
(*                                                                         *)
(* The graphics driver is the environment.  Its answers (a zero or a fresh  *)
(* handle, a compile status, a link status, an info log) are chosen         *)
(* nondeterministically; its object and binding state is modelled after    *)
(* the OpenGL 3.3 calls the wrappers issue.  Every driver call is recorded *)
(* in `calls`, in program order, with what the driver returned.             *)
(***************************************************************************)
EXTENDS Integers, Sequences, FiniteSets

(***************************************************************************)
(* Bounds of the model.                                                    *)
(***************************************************************************)
\* The event loop delivers at most MaxEvents events before it is left alone.
MaxEvents == 4

(***************************************************************************)
(* Program constants (graphics.rs:5-28).                                   *)
(***************************************************************************)
\* An f32 is kept as its IEEE-754 bit pattern, split in two 16-bit halves.
F32(hi, lo) == [hi |-> hi, lo |-> lo]
FHalf    == F32(16128, 0)    \*  0.5 = 0x3F000000
FNegHalf == F32(48896, 0)    \* -0.5 = 0xBF000000
FZero    == F32(0, 0)        \*  0.0 = 0x00000000

VERTICES ==
    << <<FHalf, FHalf, FZero>>, <<FHalf, FNegHalf, FZero>>,
       <<FNegHalf, FNegHalf, FZero>>, <<FNegHalf, FHalf, FZero>> >>

INDICES == << <<0, 1, 3>>, <<1, 2, 3>> >>

VERT_SHADER == "#version 330 core; layout (location = 0) in vec3 pos; gl_Position = vec4(pos.x, pos.y, pos.z, 1.0)"
FRAG_SHADER == "#version 330 core; out vec4 final_color; final_color = vec4(1.0, 0.5, 0.2, 1.0)"

SizeOfF32 == 4
\* core::mem::size_of::<Vertex>() with Vertex = [f32; 3]
SizeOfVertex_Short == SizeOfF32
SizeOfVertex == 3 * SizeOfF32

\* The literals of the error texts.  A text is a sequence of pieces: the
\* program's literals and the pieces of a driver log.
AllocProgramMsg == "Couldn't allocate a program"
AllocShaderMsg  == "Couldn't allocate new shader"
VertexPrefix    == "Vertex Compile Error: "
FragmentPrefix  == "Fragment Compile Error: "
LinkPrefix      == "Program Link Error: "
Prefixes == {VertexPrefix, FragmentPrefix, LinkPrefix}

\* The info logs the driver may produce (driver text, none of it the
\* program's own literals).
DriverLogs == { <<>>, <<"0:1(1): error: ", "syntax error">> }

(***************************************************************************)
(* Byte views (bytemuck::cast_slice): native-endian, tightly packed.       *)
(***************************************************************************)
U16Bytes(n, le) ==
    IF le THEN <<n % 256, (n \div 256) % 256>>
          ELSE <<(n \div 256) % 256, n % 256>>

U32Bytes(n, le) ==
    IF le THEN U16Bytes(n % 65536, le) \o U16Bytes((n \div 65536) % 65536, le)
          ELSE U16Bytes((n \div 65536) % 65536, le) \o U16Bytes(n % 65536, le)

F32Bytes(x, le) ==
    IF le THEN U16Bytes(x.lo, le) \o U16Bytes(x.hi, le)
          ELSE U16Bytes(x.hi, le) \o U16Bytes(x.lo, le)

RECURSIVE Flatten(_)
Flatten(ss) == IF ss = <<>> THEN <<>> ELSE Head(ss) \o Flatten(Tail(ss))

\* bytemuck::cast_slice(&INDICES): every u32 of every triple, in order.
IndexBytes(le) ==
    Flatten([i \in 1..Len(INDICES) |->
        Flatten([j \in 1..Len(INDICES[i]) |-> U32Bytes(INDICES[i][j], le)])])

\* bytemuck::cast_slice(&VERTICES): every f32 of every vertex, in order.
VertexBytes(le) ==
    Flatten([i \in 1..Len(VERTICES) |->
        Flatten([j \in 1..Len(VERTICES[i]) |-> F32Bytes(VERTICES[i][j], le)])])

\* Reading a byte view back (a test double driver's read-back).
DecodeU16(b, le) == IF le THEN b[1] + 256 * b[2] ELSE b[2] + 256 * b[1]
DecodeU32(b, le) ==
    IF le THEN DecodeU16(SubSeq(b, 1, 2), le) + 65536 * DecodeU16(SubSeq(b, 3, 4), le)
          ELSE DecodeU16(SubSeq(b, 3, 4), le) + 65536 * DecodeU16(SubSeq(b, 1, 2), le)
DecodeF32(b, le) ==
    IF le THEN F32(DecodeU16(SubSeq(b, 3, 4), le), DecodeU16(SubSeq(b, 1, 2), le))
          ELSE F32(DecodeU16(SubSeq(b, 1, 2), le), DecodeU16(SubSeq(b, 3, 4), le))


(***************************************************************************)
(* State.                                                                  *)
(***************************************************************************)
VARIABLES
    pc,             \* position of the one thread of control
    calls,          \* every driver call issued so far, in order
    le,             \* the target's byte order is little-endian
    \* -- driver state (the graphics context) --
    vaos,           \* vertex array names generated
    buffers,        \* buffer names generated
    shaderObj,      \* live shader objects, by name
    progObj,        \* live program objects, by name
    vaoBinding,     \* the bound vertex array (0: none)
    bufBinding,     \* the buffer bound to each target (0: none)
    bufStore,       \* each buffer's data store
    attrib0,        \* vertex attribute slot 0 of the bound vertex array
    activeProgram,  \* the program in use (0: none)
    clearColor,
    \* -- locals of GL::setup, ShaderProgram::from_vert_frag, Shader::from_source --
    vao, vbo, ebo,
    vert, frag,     \* from_vert_frag's arguments
    p, v, f,        \* from_vert_frag's locals
    ty, source,     \* from_source's arguments
    id, out,        \* from_source's locals; `out` also from_vert_frag's
    fsResult,       \* what from_source returned
    fvfResult,      \* what from_vert_frag returned
    \* -- host (main.rs) --
    controlFlow,
    eventsHandled, redraws, drawFrames, swaps, resizes,
    setupCalls, setupReturned

drv    == <<vaos, buffers, shaderObj, progObj, vaoBinding, bufBinding, bufStore,
            attrib0, activeProgram, clearColor>>
locals == <<vao, vbo, ebo, vert, frag, p, v, f, ty, source, id, out,
            fsResult, fvfResult>>
host   == <<controlFlow, eventsHandled, redraws, drawFrames, swaps, resizes,
            setupCalls, setupReturned>>
vars   == <<pc, calls, le, drv, locals, host>>

(***************************************************************************)
(* Helpers.                                                                *)
(***************************************************************************)
Put(fn, k, x) == [y \in DOMAIN fn \cup {k} |-> IF y = k THEN x ELSE fn[y]]
Drop(fn, k)   == [y \in DOMAIN fn \ {k} |-> fn[y]]
Min(a, b)     == IF a < b THEN a ELSE b

\* Result<T, String>
Ok(x)  == [ok |-> TRUE,  val |-> x, err |-> <<>>]
Err(e) == [ok |-> FALSE, val |-> 0, err |-> e]
NoResult == [ok |-> FALSE, val |-> 0, err |-> <<"(none)">>]

\* One recorded driver call: the entry point, the object it names, its
\* other arguments, and what the driver answered (for CompileShader and
\* LinkProgram, which answer nothing: the status and log the driver set).
Call(api, h, arg, ret) == [api |-> api, h |-> h, arg |-> arg, ret |-> ret]

\* BufferType::glenum
BufferGlenum(t) == IF t = "Array" THEN "GL_ARRAY_BUFFER" ELSE "GL_ELEMENT_ARRAY_BUFFER"
\* ShaderType::glenum
ShaderGlenum(t) == IF t = "Vertex" THEN "GL_VERTEX_SHADER" ELSE "GL_FRAGMENT_SHADER"

NoAttrib == [size |-> 0, type |-> "none", normalized |-> 0, stride |-> 0,
             offset |-> 0, buffer |-> 0, enabled |-> FALSE]

\* Names in use in the name space shaders and programs share.
ObjNames == DOMAIN shaderObj \cup DOMAIN progObj

Init ==
    /\ pc = "gl_new"
    /\ calls = <<>>
    /\ le \in BOOLEAN
    /\ vaos = {} /\ buffers = {}
    /\ shaderObj = <<>> /\ progObj = <<>>
    /\ vaoBinding = 0
    /\ bufBinding = [t \in {"GL_ARRAY_BUFFER", "GL_ELEMENT_ARRAY_BUFFER"} |-> 0]
    /\ bufStore = <<>>
    /\ attrib0 = NoAttrib
    /\ activeProgram = 0
    /\ clearColor = <<"0.0", "0.0", "0.0", "0.0">>
    /\ vao = 0 /\ vbo = 0 /\ ebo = 0
    /\ vert = "" /\ frag = ""
    /\ p = 0 /\ v = 0 /\ f = 0
    /\ ty = "none" /\ source = ""
    /\ id = 0 /\ out = <<>>
    /\ fsResult = NoResult /\ fvfResult = NoResult
    /\ controlFlow = "Poll"
    /\ eventsHandled = 0 /\ redraws = 0 /\ drawFrames = 0 /\ swaps = 0 /\ resizes = 0
    /\ setupCalls = 0 /\ setupReturned = FALSE

(***************************************************************************)
(* The driver's side of the calls.                                         *)
(***************************************************************************)
\* What an allocation may answer: the zero sentinel, or a fresh name.  Names
\* are opaque to the program; the driver hands out the least one not in use
\* in the name space.
NextName(used) == CHOOSE n \in 1..(Cardinality(used) + 1) : n \notin used
GenName(used) == {0, NextName(used)}

\* glDeleteShader: a shader attached to a program is only flagged; otherwise
\* the object is freed.  A name that is no shader is ignored.
DriverDeleteShader(so, po, h) ==
    IF h \notin DOMAIN so THEN so
    ELSE IF \E q \in DOMAIN po : h \in po[q].attached
         THEN [so EXCEPT ![h].delPending = TRUE]
         ELSE Drop(so, h)

\* glDeleteProgram, the program objects: the program in use is only flagged.
DriverDeleteProgramP(po, active, h) ==
    IF h \notin DOMAIN po THEN po
    ELSE IF active = h THEN [po EXCEPT ![h].delPending = TRUE]
    ELSE Drop(po, h)

\* glDeleteProgram, the shader objects: freeing a program detaches its
\* shaders, and a detached shader flagged for deletion is freed.
DriverDeleteProgramS(so, po, active, h) ==
    IF h \notin DOMAIN po \/ active = h THEN so
    ELSE [s \in {x \in DOMAIN so : ~(x \in po[h].attached /\ so[x].delPending)}
              |-> so[s]]

\* glLinkProgram: linking can succeed only with a compiled vertex and a
\* compiled fragment shader attached.
DriverLinkOutcomes(so, po, h) ==
    IF /\ \A s \in po[h].attached : s \in DOMAIN so /\ so[s].status = 1
       /\ \E s \in po[h].attached : so[s].kind = "GL_VERTEX_SHADER"
       /\ \E s \in po[h].attached : so[s].kind = "GL_FRAGMENT_SHADER"
    THEN {0, 1} ELSE {0}

\* GL_INFO_LOG_LENGTH counts the terminator; an empty log has length 0.
DriverLogLength(log) == IF log = <<>> THEN 0 ELSE Len(log) + 1

\* glGet*InfoLog into a buffer of `capacity`: at most capacity-1 pieces of
\* the log are written (then the terminator); returns what was written.
DriverWriteLog(log, capacity) ==
    IF capacity <= 0 THEN <<>> ELSE SubSeq(log, 1, Min(Len(log), capacity - 1))

(***************************************************************************)
(* Wrapper helpers.                                                        *)
(***************************************************************************)
\* `if vao != 0 { Some(..) } else { None }` in every ::new
IsSome(h) == h # 0

\* Shader::compile_success: `compiled != 0`
CompiledFlag_Always(compiled) == TRUE
CompiledFlag(compiled) == compiled # 0

\* ShaderProgram::link_success: `success != 0`
LinkedFlag_Always(success) == TRUE
LinkedFlag(success) == success # 0

\* Shader::info_log / ShaderProgram::info_log: a Vec of capacity needed_len,
\* filled by the driver, cut to len_written.
info_log(log) ==
    LET needed_len == DriverLogLength(log)
    IN  DriverWriteLog(log, needed_len)

\* format!("Vertex Compile Error: {}", e)
VertexError_Bare(e) == e
VertexError(e) == <<VertexPrefix>> \o e
\* format!("Fragment Compile Error: {}", e)
FragmentError_AsVertex(e) == <<VertexPrefix>> \o e
FragmentError(e) == <<FragmentPrefix>> \o e
\* format!("Program Link Error: {}", p.info_log(ctx))
LinkError(log) == <<LinkPrefix>> \o log

\* Option::unwrap / Result::unwrap: whether the process panics.
Panics_Never(ok) == FALSE
Panics(ok) == ~ok

(***************************************************************************)
(* main (main.rs:22-24) and GL::setup (graphics.rs:343-374).               *)
(***************************************************************************)
\* GL::new: GlFns::load_from(..).unwrap()
GLNew ==
    /\ pc = "gl_new"
    /\ \E loaded \in BOOLEAN :
          pc' = IF Panics(loaded) THEN "aborted" ELSE "setup"
    /\ UNCHANGED <<calls, le, drv, locals, host>>

\* gl.setup(); self.clear_color(0.1, 0.1, 0.1, 1.0)
SetupClearColor ==
    /\ pc = "setup"
    /\ setupCalls' = setupCalls + 1
    /\ clearColor' = <<"0.1", "0.1", "0.1", "1.0">>
    /\ calls' = Append(calls, Call("ClearColor", 0, clearColor', 0))
    /\ pc' = "vao_new"
    /\ UNCHANGED <<le, vaos, buffers, shaderObj, progObj, vaoBinding, bufBinding,
                   bufStore, attrib0, activeProgram, locals, controlFlow,
                   eventsHandled, redraws, drawFrames, swaps, resizes, setupReturned>>

\* let vao = VertexArray::new(self).unwrap()
VaoNew ==
    /\ pc = "vao_new"
    /\ \E h \in GenName(vaos) :
          /\ calls' = Append(calls, Call("GenVertexArrays", h, 1, h))
          /\ vaos' = IF h # 0 THEN vaos \cup {h} ELSE vaos
          /\ IF Panics(IsSome(h))
             THEN pc' = "aborted" /\ vao' = vao
             ELSE pc' = "vao_bind" /\ vao' = h
    /\ UNCHANGED <<le, buffers, shaderObj, progObj, vaoBinding, bufBinding, bufStore,
                   attrib0, activeProgram, clearColor, vbo, ebo, vert, frag, p, v, f,
                   ty, source, id, out, fsResult, fvfResult, host>>

\* vao.bind(self)
VaoBind ==
    /\ pc = "vao_bind"
    /\ calls' = Append(calls, Call("BindVertexArray", vao, 0, 0))
    /\ vaoBinding' = IF vao \in vaos THEN vao ELSE vaoBinding
    /\ pc' = "vbo_new"
    /\ UNCHANGED <<le, vaos, buffers, shaderObj, progObj, bufBinding, bufStore,
                   attrib0, activeProgram, clearColor, locals, host>>

\* Buffer::new(self, buffer_type) followed by unwrap, for either buffer.
BufferNew(at, next) ==
    /\ pc = at
    /\ \E h \in GenName(buffers) :
          /\ calls' = Append(calls, Call("GenBuffers", h, 1, h))
          /\ buffers' = IF h # 0 THEN buffers \cup {h} ELSE buffers
          /\ bufStore' = IF h # 0 THEN Put(bufStore, h, <<>>) ELSE bufStore
          /\ IF Panics(IsSome(h))
             THEN pc' = "aborted" /\ UNCHANGED <<vbo, ebo>>
             ELSE /\ pc' = next
                  /\ IF at = "vbo_new" THEN vbo' = h /\ ebo' = ebo
                                       ELSE ebo' = h /\ vbo' = vbo
    /\ UNCHANGED <<le, vaos, shaderObj, progObj, vaoBinding, bufBinding,
                   attrib0, activeProgram, clearColor, vao, vert, frag, p, v, f,
                   ty, source, id, out, fsResult, fvfResult, host>>

\* Buffer::bind: BindBuffer(self.1.glenum(), self.0)
BufferBind(at, next, h, btype) ==
    /\ pc = at
    /\ calls' = Append(calls, Call("BindBuffer", h, BufferGlenum(btype), 0))
    /\ bufBinding' = IF h \in buffers
                     THEN [bufBinding EXCEPT ![BufferGlenum(btype)] = h]
                     ELSE bufBinding
    /\ pc' = next
    /\ UNCHANGED <<le, vaos, buffers, shaderObj, progObj, vaoBinding, bufStore,
                   attrib0, activeProgram, clearColor, locals, host>>

\* let vbo = Buffer::new(self, BufferType::Array).unwrap()
VboNew == BufferNew("vbo_new", "vbo_bind")
\* vbo.bind(self)
VboBind == BufferBind("vbo_bind", "ebo_new", vbo, "Array")
\* let ebo = Buffer::new(self, BufferType::ElementArray).unwrap()
EboNew == BufferNew("ebo_new", "ebo_bind")
\* ebo.bind(self)
EboBind == BufferBind("ebo_bind", "upload_indices", ebo, "ElementArray")

\* buffer_data(ctx, ty, data, usage): the data lands in whatever buffer is
\* bound to ty's target; with none bound the driver stores nothing.
buffer_data(at, next, btype, data) ==
    LET target  == BufferGlenum(btype)
        landing == bufBinding[target]
    IN  /\ pc = at
        /\ calls' = Append(calls,
              Call("BufferData", landing,
                   [target |-> target, size |-> Len(data), data |-> data,
                    usage |-> "GL_STATIC_DRAW", vao |-> vaoBinding], 0))
        /\ bufStore' = IF landing \in DOMAIN bufStore THEN [bufStore EXCEPT ![landing] = data]
                                      ELSE bufStore
        /\ pc' = next
        /\ UNCHANGED <<le, vaos, buffers, shaderObj, progObj, vaoBinding, bufBinding,
                       attrib0, activeProgram, clearColor, locals, host>>

\* buffer_data(self, BufferType::ElementArray, cast_slice(&INDICES), GL_STATIC_DRAW)
UploadIndices == buffer_data("upload_indices", "upload_vertices", "ElementArray", IndexBytes(le))
\* buffer_data(self, BufferType::Array, cast_slice(&VERTICES), GL_STATIC_DRAW)
UploadVertices == buffer_data("upload_vertices", "attrib_pointer", "Array", VertexBytes(le))

\* self.gl.VertexAttribPointer(0, 3, GL_FLOAT, false as u8, size_of::<Vertex>(), 0)
AttribPointer ==
    /\ pc = "attrib_pointer"
    /\ LET a == [size |-> 3, type |-> "GL_FLOAT", normalized |-> 0,
                 stride |-> SizeOfVertex, offset |-> 0,
                 buffer |-> bufBinding["GL_ARRAY_BUFFER"], enabled |-> attrib0.enabled]
       IN /\ calls' = Append(calls, Call("VertexAttribPointer", 0, a, 0))
          /\ attrib0' = IF vaoBinding # 0 THEN a ELSE attrib0
    /\ pc' = "attrib_enable"
    /\ UNCHANGED <<le, vaos, buffers, shaderObj, progObj, vaoBinding, bufBinding,
                   bufStore, activeProgram, clearColor, locals, host>>

\* self.gl.EnableVertexAttribArray(0)
AttribEnable ==
    /\ pc = "attrib_enable"
    /\ calls' = Append(calls, Call("EnableVertexAttribArray", 0, 0, 0))
    /\ attrib0' = IF vaoBinding # 0 THEN [attrib0 EXCEPT !.enabled = TRUE] ELSE attrib0
    /\ pc' = "setup_fvf"
    /\ UNCHANGED <<le, vaos, buffers, shaderObj, progObj, vaoBinding, bufBinding,
                   bufStore, activeProgram, clearColor, locals, host>>

\* ShaderProgram::from_vert_frag(self, VERT_SHADER, FRAG_SHADER): the call
SetupBuildProgram ==
    /\ pc = "setup_fvf"
    /\ vert' = VERT_SHADER /\ frag' = FRAG_SHADER
    /\ pc' = "fvf_new"
    /\ UNCHANGED <<calls, le, drv, vao, vbo, ebo, p, v, f, ty, source, id, out,
                   fsResult, fvfResult, host>>

(***************************************************************************)
(* Shader::from_source (graphics.rs:205-217).                              *)
(***************************************************************************)
NewShader(kind) == [kind |-> kind, src |-> "", status |-> 0, log |-> <<>>,
                    delPending |-> FALSE]
NewProgram == [attached |-> {}, status |-> 0, log |-> <<>>, delPending |-> FALSE]

\* Where from_source returns to in from_vert_frag.
FsReturn == IF ty = "Vertex" THEN "fvf_v_ret" ELSE "fvf_f_ret"

\* let id = Self::new(ctx, ty).ok_or_else(|| "Couldn't allocate new shader")?
FS_New ==
    /\ pc = "fs_new"
    /\ \E h \in GenName(ObjNames) :
          /\ calls' = Append(calls, Call("CreateShader", h, ShaderGlenum(ty), h))
          /\ shaderObj' = IF h # 0 THEN Put(shaderObj, h, NewShader(ShaderGlenum(ty)))
                                   ELSE shaderObj
          /\ IF IsSome(h)
             THEN id' = h /\ pc' = "fs_set_source" /\ fsResult' = fsResult
             ELSE id' = id /\ pc' = FsReturn /\ fsResult' = Err(<<AllocShaderMsg>>)
    /\ UNCHANGED <<le, vaos, buffers, progObj, vaoBinding, bufBinding, bufStore,
                   attrib0, activeProgram, clearColor, vao, vbo, ebo, vert, frag,
                   p, v, f, ty, source, out, fvfResult, host>>

\* id.set_source(ctx, source)
FS_SetSource ==
    /\ pc = "fs_set_source"
    /\ calls' = Append(calls, Call("ShaderSource", id, source, 0))
    /\ shaderObj' = IF id \in DOMAIN shaderObj
                    THEN [shaderObj EXCEPT ![id].src = source] ELSE shaderObj
    /\ pc' = "fs_compile"
    /\ UNCHANGED <<le, vaos, buffers, progObj, vaoBinding, bufBinding, bufStore,
                   attrib0, activeProgram, clearColor, locals, host>>

\* id.compile(ctx): the driver decides the status and writes its log
FS_Compile ==
    /\ pc = "fs_compile"
    /\ \E st \in {0, 1}, lg \in DriverLogs :
          LET done == IF id \in DOMAIN shaderObj THEN [status |-> st, log |-> lg]
                                                ELSE [status |-> 0, log |-> <<>>]
          IN /\ calls' = Append(calls, Call("CompileShader", id, 0, done))
             /\ shaderObj' = IF id \in DOMAIN shaderObj
                             THEN [shaderObj EXCEPT ![id].status = st, ![id].log = lg]
                             ELSE shaderObj
    /\ pc' = "fs_compile_success"
    /\ UNCHANGED <<le, vaos, buffers, progObj, vaoBinding, bufBinding, bufStore,
                   attrib0, activeProgram, clearColor, locals, host>>

\* if id.compile_success(ctx) { Ok(id) } else { .. }
FS_CompileSuccess ==
    /\ pc = "fs_compile_success"
    /\ LET compiled == IF id \in DOMAIN shaderObj THEN shaderObj[id].status ELSE 0
       IN /\ calls' = Append(calls, Call("GetShaderiv", id, "GL_COMPILE_STATUS", compiled))
          /\ IF CompiledFlag(compiled)
             THEN fsResult' = Ok(id) /\ pc' = FsReturn
             ELSE fsResult' = fsResult /\ pc' = "fs_info_log"
    /\ UNCHANGED <<le, drv, vao, vbo, ebo, vert, frag, p, v, f, ty, source, id, out,
                   fvfResult, host>>

\* let out = id.info_log(ctx)
FS_InfoLog ==
    /\ pc = "fs_info_log"
    /\ LET log == IF id \in DOMAIN shaderObj THEN shaderObj[id].log ELSE <<>>
       IN /\ calls' = calls \o
                 << Call("GetShaderiv", id, "GL_INFO_LOG_LENGTH", DriverLogLength(log)),
                    Call("GetShaderInfoLog", id, DriverLogLength(log), info_log(log)) >>
          /\ out' = info_log(log)
    /\ pc' = "fs_delete"
    /\ UNCHANGED <<le, drv, vao, vbo, ebo, vert, frag, p, v, f, ty, source, id,
                   fsResult, fvfResult, host>>

\* id.delete(ctx); Err(out)
FS_Delete ==
    /\ pc = "fs_delete"
    /\ calls' = Append(calls, Call("DeleteShader", id, 0, 0))
    /\ shaderObj' = DriverDeleteShader(shaderObj, progObj, id)
    /\ fsResult' = Err(out)
    /\ pc' = FsReturn
    /\ UNCHANGED <<le, vaos, buffers, progObj, vaoBinding, bufBinding, bufStore,
                   attrib0, activeProgram, clearColor, vao, vbo, ebo, vert, frag,
                   p, v, f, ty, source, id, out, fvfResult, host>>

(***************************************************************************)
(* ShaderProgram::from_vert_frag (graphics.rs:294-313).                    *)
(***************************************************************************)
\* let p = Self::new(ctx).ok_or_else(|| "Couldn't allocate a program")?;
\* then the call Shader::from_source(ctx, ShaderType::Vertex, vert)
FVF_New ==
    /\ pc = "fvf_new"
    /\ \E h \in GenName(ObjNames) :
          /\ calls' = Append(calls, Call("CreateProgram", h, 0, h))
          /\ progObj' = IF h # 0 THEN Put(progObj, h, NewProgram) ELSE progObj
          /\ IF IsSome(h)
             THEN /\ p' = h /\ ty' = "Vertex" /\ source' = vert
                  /\ pc' = "fs_new" /\ fvfResult' = fvfResult
             ELSE /\ fvfResult' = Err(<<AllocProgramMsg>>)
                  /\ pc' = "setup_unwrap" /\ UNCHANGED <<p, ty, source>>
    /\ UNCHANGED <<le, vaos, buffers, shaderObj, vaoBinding, bufBinding, bufStore,
                   attrib0, activeProgram, clearColor, vao, vbo, ebo, vert, frag,
                   v, f, id, out, fsResult, host>>

\* let v = (from_source's result).map_err(|e| format!("Vertex Compile Error: {}", e))?;
\* then the call Shader::from_source(ctx, ShaderType::Fragment, frag)
FVF_VertRet ==
    /\ pc = "fvf_v_ret"
    /\ IF fsResult.ok
       THEN /\ v' = fsResult.val /\ ty' = "Fragment" /\ source' = frag
            /\ pc' = "fs_new" /\ fvfResult' = fvfResult
       ELSE /\ fvfResult' = Err(VertexError(fsResult.err))
            /\ pc' = "setup_unwrap" /\ UNCHANGED <<v, ty, source>>
    /\ UNCHANGED <<calls, le, drv, vao, vbo, ebo, vert, frag, p, f, id, out,
                   fsResult, host>>

\* let f = (from_source's result).map_err(|e| format!("Fragment Compile Error: {}", e))?
FVF_FragRet ==
    /\ pc = "fvf_f_ret"
    /\ IF fsResult.ok
       THEN f' = fsResult.val /\ pc' = "fvf_attach_v" /\ fvfResult' = fvfResult
       ELSE /\ fvfResult' = Err(FragmentError(fsResult.err))
            /\ pc' = "setup_unwrap" /\ f' = f
    /\ UNCHANGED <<calls, le, drv, vao, vbo, ebo, vert, frag, p, v, ty, source, id,
                   out, fsResult, host>>

\* ShaderProgram::attach_shader
attach_shader(at, next, shader) ==
    /\ pc = at
    /\ calls' = Append(calls, Call("AttachShader", p, shader, 0))
    /\ progObj' = IF p \in DOMAIN progObj /\ shader \in DOMAIN shaderObj
                  THEN [progObj EXCEPT ![p].attached = @ \cup {shader}] ELSE progObj
    /\ pc' = next
    /\ UNCHANGED <<le, vaos, buffers, shaderObj, vaoBinding, bufBinding, bufStore,
                   attrib0, activeProgram, clearColor, locals, host>>

\* p.attach_shader(ctx, &v)
FVF_AttachV == attach_shader("fvf_attach_v", "fvf_attach_f", v)
\* p.attach_shader(ctx, &f)
FVF_AttachF == attach_shader("fvf_attach_f", "fvf_link", f)

\* p.link_program(ctx): the driver decides the status and writes its log
FVF_Link ==
    /\ pc = "fvf_link"
    /\ \E st \in {0, 1}, lg \in DriverLogs :
          LET known == p \in DOMAIN progObj
              done  == IF known THEN [status |-> st, log |-> lg]
                                ELSE [status |-> 0, log |-> <<>>]
          IN /\ known => st \in DriverLinkOutcomes(shaderObj, progObj, p)
             /\ calls' = Append(calls, Call("LinkProgram", p, 0, done))
             /\ progObj' = IF known
                           THEN [progObj EXCEPT ![p].status = st, ![p].log = lg]
                           ELSE progObj
    /\ pc' = "fvf_delete_v"
    /\ UNCHANGED <<le, vaos, buffers, shaderObj, vaoBinding, bufBinding, bufStore,
                   attrib0, activeProgram, clearColor, locals, host>>

\* Shader::delete
delete_shader(at, next, shader) ==
    /\ pc = at
    /\ calls' = Append(calls, Call("DeleteShader", shader, 0, 0))
    /\ shaderObj' = DriverDeleteShader(shaderObj, progObj, shader)
    /\ pc' = next
    /\ UNCHANGED <<le, vaos, buffers, progObj, vaoBinding, bufBinding, bufStore,
                   attrib0, activeProgram, clearColor, locals, host>>

\* v.delete(ctx)
FVF_DeleteV_Skipped ==
    /\ pc = "fvf_delete_v"
    /\ pc' = "fvf_delete_f"
    /\ UNCHANGED <<calls, le, drv, locals, host>>
FVF_DeleteV == delete_shader("fvf_delete_v", "fvf_delete_f", v)
\* f.delete(ctx)
FVF_DeleteF_Again == delete_shader("fvf_delete_f", "fvf_link_success", v)
FVF_DeleteF == delete_shader("fvf_delete_f", "fvf_link_success", f)

\* if p.link_success(ctx) { Ok(p) } else { .. }
FVF_LinkSuccess ==
    /\ pc = "fvf_link_success"
    /\ LET success == IF p \in DOMAIN progObj THEN progObj[p].status ELSE 0
       IN /\ calls' = Append(calls, Call("GetProgramiv", p, "GL_LINK_STATUS", success))
          /\ IF LinkedFlag(success)
             THEN fvfResult' = Ok(p) /\ pc' = "setup_unwrap"
             ELSE fvfResult' = fvfResult /\ pc' = "fvf_info_log"
    /\ UNCHANGED <<le, drv, vao, vbo, ebo, vert, frag, p, v, f, ty, source, id, out,
                   fsResult, host>>

\* let out = format!("Program Link Error: {}", p.info_log(ctx))
FVF_InfoLog ==
    /\ pc = "fvf_info_log"
    /\ LET log == IF p \in DOMAIN progObj THEN progObj[p].log ELSE <<>>
       IN /\ calls' = calls \o
                 << Call("GetProgramiv", p, "GL_INFO_LOG_LENGTH", DriverLogLength(log)),
                    Call("GetProgramInfoLog", p, DriverLogLength(log), info_log(log)) >>
          /\ out' = LinkError(info_log(log))
    /\ pc' = "fvf_delete_p"
    /\ UNCHANGED <<le, drv, vao, vbo, ebo, vert, frag, p, v, f, ty, source, id,
                   fsResult, fvfResult, host>>

\* p.delete(ctx); Err(out)
FVF_DeleteP ==
    /\ pc = "fvf_delete_p"
    /\ calls' = Append(calls, Call("DeleteProgram", p, 0, 0))
    /\ progObj' = DriverDeleteProgramP(progObj, activeProgram, p)
    /\ shaderObj' = DriverDeleteProgramS(shaderObj, progObj, activeProgram, p)
    /\ fvfResult' = Err(out)
    /\ pc' = "setup_unwrap"
    /\ UNCHANGED <<le, vaos, buffers, vaoBinding, bufBinding, bufStore, attrib0,
                   activeProgram, clearColor, vao, vbo, ebo, vert, frag, p, v, f,
                   ty, source, id, out, fsResult, host>>

(***************************************************************************)
(* GL::setup, continued (graphics.rs:371-373).                             *)
(***************************************************************************)
\* let shader_program = (from_vert_frag's result).unwrap()
SetupUnwrap ==
    /\ pc = "setup_unwrap"
    /\ pc' = IF Panics(fvfResult.ok) THEN "aborted" ELSE "use_program"
    /\ UNCHANGED <<calls, le, drv, locals, host>>

\* shader_program.use_program(self); setup returns
SetupUse ==
    /\ pc = "use_program"
    /\ LET h == fvfResult.val
       IN /\ calls' = Append(calls, Call("UseProgram", h, 0, 0))
          /\ activeProgram' = IF h \in DOMAIN progObj /\ progObj[h].status = 1
                              THEN h ELSE activeProgram
    /\ setupReturned' = TRUE
    /\ pc' = "loop"
    /\ UNCHANGED <<le, vaos, buffers, shaderObj, progObj, vaoBinding, bufBinding,
                   bufStore, attrib0, clearColor, locals, controlFlow,
                   eventsHandled, redraws, drawFrames, swaps, resizes, setupCalls>>

(***************************************************************************)
(* The event loop's handler (main.rs:26-42) and GL::draw_frame             *)
(* (graphics.rs:376-381).  Every invocation first sets                     *)
(* *control_flow = ControlFlow::Wait.                                      *)
(***************************************************************************)
Delivering == pc = "loop" /\ controlFlow # "Exit" /\ eventsHandled < MaxEvents

\* `_ => ()`, in the outer and in the inner match
EvIgnored ==
    /\ Delivering
    /\ controlFlow' = "Wait"
    /\ eventsHandled' = eventsHandled + 1
    /\ UNCHANGED <<pc, calls, le, drv, locals, redraws, drawFrames, swaps, resizes,
                   setupCalls, setupReturned>>

\* WindowEvent::Resized(physical_size) => windowed_context.resize(physical_size)
EvResized ==
    /\ Delivering
    /\ controlFlow' = "Wait"
    /\ resizes' = resizes + 1
    /\ eventsHandled' = eventsHandled + 1
    /\ UNCHANGED <<pc, calls, le, drv, locals, redraws, drawFrames, swaps,
                   setupCalls, setupReturned>>

\* WindowEvent::CloseRequested => *control_flow = ControlFlow::Exit
EvCloseRequested ==
    /\ Delivering
    /\ controlFlow' = "Exit"
    /\ eventsHandled' = eventsHandled + 1
    /\ UNCHANGED <<pc, calls, le, drv, locals, redraws, drawFrames, swaps, resizes,
                   setupCalls, setupReturned>>

\* Event::LoopDestroyed => (): the loop's last event, after Exit was asked for
EvLoopDestroyed ==
    /\ pc = "loop" /\ controlFlow = "Exit"
    /\ eventsHandled' = eventsHandled + 1
    /\ pc' = "exited"
    /\ UNCHANGED <<calls, le, drv, locals, controlFlow, redraws, drawFrames, swaps, resizes,
                   setupCalls, setupReturned>>

\* Event::RedrawRequested(_) => { gl.draw_frame(); .. }: the call of draw_frame
EvRedrawRequested ==
    /\ Delivering
    /\ controlFlow' = "Wait"
    /\ redraws' = redraws + 1
    /\ eventsHandled' = eventsHandled + 1
    /\ drawFrames' = drawFrames + 1
    /\ pc' = "draw_clear"
    /\ UNCHANGED <<calls, le, drv, locals, swaps, resizes, setupCalls, setupReturned>>

\* GL::clear: self.gl.Clear(GL_COLOR_BUFFER_BIT | GL_DEPTH_BUFFER_BIT)
ClearMask == {"GL_COLOR_BUFFER_BIT", "GL_DEPTH_BUFFER_BIT"}

\* draw_frame: self.clear()
DrawClear ==
    /\ pc = "draw_clear"
    /\ calls' = Append(calls, Call("Clear", 0, ClearMask, 0))
    /\ pc' = "draw_elements"
    /\ UNCHANGED <<le, drv, locals, host>>

\* The arguments of draw_frame's DrawElements, and the state it draws with.
DrawArgs_OneTriangle ==
    [mode |-> "GL_TRIANGLES", count |-> 3, type |-> "GL_UNSIGNED_INT", offset |-> 0,
     program |-> activeProgram, vao |-> vaoBinding]
DrawArgs ==
    [mode |-> "GL_TRIANGLES", count |-> 6, type |-> "GL_UNSIGNED_INT", offset |-> 0,
     program |-> activeProgram, vao |-> vaoBinding]

\* draw_frame: self.gl.DrawElements(GL_TRIANGLES, 6, GL_UNSIGNED_INT, 0)
DrawElements ==
    /\ pc = "draw_elements"
    /\ calls' = Append(calls, Call("DrawElements", 0, DrawArgs, 0))
    /\ pc' = "swap"
    /\ UNCHANGED <<le, drv, locals, host>>

\* windowed_context.swap_buffers().unwrap()
SwapBuffers ==
    /\ pc = "swap"
    /\ \E swapped \in BOOLEAN :
          /\ calls' = Append(calls, Call("swap_buffers", 0, 0, swapped))
          /\ pc' = IF Panics(swapped) THEN "aborted" ELSE "loop"
    /\ swaps' = swaps + 1
    /\ UNCHANGED <<le, drv, locals, controlFlow, eventsHandled, redraws,
                   drawFrames, resizes, setupCalls, setupReturned>>

(***************************************************************************)
(* The program.                                                            *)
(***************************************************************************)
Next ==
    \/ GLNew
    \/ SetupClearColor \/ VaoNew \/ VaoBind \/ VboNew \/ VboBind \/ EboNew \/ EboBind
    \/ UploadIndices \/ UploadVertices \/ AttribPointer \/ AttribEnable
    \/ SetupBuildProgram
    \/ FVF_New
    \/ FS_New \/ FS_SetSource \/ FS_Compile \/ FS_CompileSuccess \/ FS_InfoLog \/ FS_Delete
    \/ FVF_VertRet \/ FVF_FragRet \/ FVF_AttachV \/ FVF_AttachF \/ FVF_Link
    \/ FVF_DeleteV \/ FVF_DeleteF \/ FVF_LinkSuccess \/ FVF_InfoLog \/ FVF_DeleteP
    \/ SetupUnwrap \/ SetupUse
    \/ EvIgnored \/ EvResized \/ EvCloseRequested \/ EvLoopDestroyed
    \/ EvRedrawRequested \/ DrawClear \/ DrawElements \/ SwapBuffers

Spec == Init /\ [][Next]_vars

(***************************************************************************)
(* Reading the record of driver calls.                                     *)
(***************************************************************************)
Idx == 1..Len(calls)
At(api) == {i \in Idx : calls[i].api = api}
Count(api) == Cardinality(At(api))

\* The calls that name shader h, and the calls that name program h.
ShaderApis  == {"ShaderSource", "CompileShader", "GetShaderiv", "GetShaderInfoLog",
                "DeleteShader"}
ProgramApis == {"AttachShader", "LinkProgram", "GetProgramiv", "GetProgramInfoLog",
                "UseProgram", "DeleteProgram"}
TouchesShader(c, h) ==
    \/ c.api \in ShaderApis /\ c.h = h
    \/ c.api = "AttachShader" /\ c.arg = h
TouchesProgram(c, h) == c.api \in ProgramApis /\ c.h = h

\* What the driver answered to the allocation of the program / of a shader
\* of a kind, and to the status queries on an object.
ProgramAnswers    == {calls[i].ret : i \in At("CreateProgram")}
ShaderAnswers(k)  == {calls[i].ret : i \in {j \in At("CreateShader") : calls[j].arg = k}}
CompileAnswers(k) ==
    {calls[i].ret : i \in {j \in At("GetShaderiv") :
        calls[j].arg = "GL_COMPILE_STATUS" /\ calls[j].h \in ShaderAnswers(k) \ {0}}}
LinkAnswers ==
    {calls[i].ret : i \in {j \in At("GetProgramiv") : calls[j].arg = "GL_LINK_STATUS"}}
ShaderLogs(k) ==
    {calls[i].ret : i \in {j \in At("GetShaderInfoLog") : calls[j].h \in ShaderAnswers(k) \ {0}}}
ProgramLogs == {calls[i].ret : i \in At("GetProgramInfoLog")}

VS == "GL_VERTEX_SHADER"
FS == "GL_FRAGMENT_SHADER"

\* from_vert_frag has returned to setup, which has not yet looked at the result.
FvfReturned == pc = "setup_unwrap"

\* A text holds no provenance prefix but `pre`, and holds it in front.
OnlyPrefix(text, pre) ==
    /\ text # <<>> /\ Head(text) = pre
    /\ \A i \in 2..Len(text) : text[i] \notin Prefixes

(***************************************************************************)
(* C1: when from_vert_frag returns Err, every handle the driver allocated  *)
(* during the call (program, vertex shader, fragment shader) has had its   *)
(* delete issued.  The code does not do this: `?` returns on a shader      *)
(* failure without deleting the program (or the vertex shader).            *)
(***************************************************************************)
C1_CleanupOnFailure ==
    (FvfReturned /\ ~fvfResult.ok) =>
        /\ \A i \in At("CreateProgram") : calls[i].ret # 0 =>
              \E j \in At("DeleteProgram") : j > i /\ calls[j].h = calls[i].ret
        /\ \A i \in At("CreateShader") : calls[i].ret # 0 =>
              \E j \in At("DeleteShader") : j > i /\ calls[j].h = calls[i].ret

(***************************************************************************)
(* C2: with every allocation successful, from_vert_frag reports the first  *)
(* failing step and only it: a vertex compile failure gives Err with the   *)
(* vertex prefix and the fragment shader is never allocated or compiled; a *)
(* fragment compile failure gives Err with the fragment prefix and nothing *)
(* is attached or linked; a link failure gives Err with the link prefix;   *)
(* otherwise the result is Ok.  The text holds no other prefix.            *)
(***************************************************************************)
AllAllocated ==
    0 \notin ProgramAnswers \cup ShaderAnswers(VS) \cup ShaderAnswers(FS)

\* C2: the Err text names the first failing step, and only it; Ok otherwise.
C2_Provenance ==
    (FvfReturned /\ AllAllocated) =>
        /\ CompileAnswers(VS) \in {{0}, {1}}
        /\ CompileAnswers(VS) = {0} =>
              /\ ~fvfResult.ok /\ OnlyPrefix(fvfResult.err, VertexPrefix)
              /\ ShaderAnswers(FS) = {} /\ Count("CompileShader") = 1
        /\ CompileAnswers(VS) = {1} =>
              /\ CompileAnswers(FS) \in {{0}, {1}}
              /\ CompileAnswers(FS) = {0} =>
                    /\ ~fvfResult.ok /\ OnlyPrefix(fvfResult.err, FragmentPrefix)
                    /\ Count("AttachShader") = 0 /\ Count("LinkProgram") = 0
              /\ CompileAnswers(FS) = {1} =>
                    /\ LinkAnswers \in {{0}, {1}}
                    /\ LinkAnswers = {0} =>
                          ~fvfResult.ok /\ OnlyPrefix(fvfResult.err, LinkPrefix)
                    /\ LinkAnswers = {1} => fvfResult.ok

\* A fragment compile failure after a vertex shader that compiled.
C2_Witness ==
    /\ FvfReturned /\ AllAllocated
    /\ CompileAnswers(VS) = {1} /\ CompileAnswers(FS) = {0}
    /\ ~fvfResult.ok /\ Head(fvfResult.err) = FragmentPrefix

(***************************************************************************)
(* C3, as claimed: every Err of from_vert_frag starts with one of the      *)
(* three provenance prefixes, and an allocation failure is reported        *)
(* neither under a compile or link prefix nor without a prefix.            *)
(***************************************************************************)
AllocationFailed == 0 \in ProgramAnswers \cup ShaderAnswers(VS) \cup ShaderAnswers(FS)

\* C3 as claimed: every Err has one of the three prefixes, never for an
\* allocation failure.
C3_Original ==
    (FvfReturned /\ ~fvfResult.ok) =>
        /\ fvfResult.err # <<>> /\ Head(fvfResult.err) \in Prefixes
        /\ AllocationFailed =>
              Head(fvfResult.err) \notin {VertexPrefix, FragmentPrefix, LinkPrefix}

(***************************************************************************)
(* C3, amended: an Err of from_vert_frag is the bare text "Couldn't        *)
(* allocate a program" when the program allocation failed, and otherwise   *)
(* starts with exactly one provenance prefix, naming the step that failed: *)
(* the vertex (fragment) prefix for a failure of that shader's             *)
(* from_source, be it a compile failure (followed by the shader's log) or  *)
(* an allocation failure (followed by "Couldn't allocate new shader"); the *)
(* link prefix for a link failure (followed by the program's log).         *)
(***************************************************************************)
C3_Amended ==
    (FvfReturned /\ ~fvfResult.ok) =>
        LET err == fvfResult.err
        IN  \/ /\ ProgramAnswers = {0}
               /\ err = <<AllocProgramMsg>>
            \/ /\ 0 \notin ProgramAnswers /\ ShaderAnswers(VS) = {0}
               /\ err = <<VertexPrefix, AllocShaderMsg>>
            \/ /\ 0 \notin ProgramAnswers /\ CompileAnswers(VS) = {0}
               /\ OnlyPrefix(err, VertexPrefix) /\ ShaderLogs(VS) = {Tail(err)}
            \/ /\ 0 \notin ProgramAnswers /\ CompileAnswers(VS) = {1}
               /\ ShaderAnswers(FS) = {0}
               /\ err = <<FragmentPrefix, AllocShaderMsg>>
            \/ /\ 0 \notin ProgramAnswers /\ CompileAnswers(VS) = {1}
               /\ CompileAnswers(FS) = {0}
               /\ OnlyPrefix(err, FragmentPrefix) /\ ShaderLogs(FS) = {Tail(err)}
            \/ /\ 0 \notin ProgramAnswers
               /\ CompileAnswers(VS) = {1} /\ CompileAnswers(FS) = {1}
               /\ LinkAnswers = {0}
               /\ OnlyPrefix(err, LinkPrefix) /\ ProgramLogs = {Tail(err)}

\* A vertex shader allocation failure, reported under the vertex prefix.
C3_Witness ==
    /\ FvfReturned /\ ~fvfResult.ok
    /\ ShaderAnswers(VS) = {0}
    /\ fvfResult.err = <<VertexPrefix, AllocShaderMsg>>

(***************************************************************************)
(* C4: a program is made active, or is in effect at a draw call, only      *)
(* after the driver reported link success for it and compile success for   *)
(* both shaders attached to it (one vertex, one fragment).                 *)
(***************************************************************************)
\* Before call number n, program h was found linked and its two attached
\* shaders were found compiled.
CheckedBefore(h, n) ==
    LET attached == {calls[i].arg : i \in {j \in At("AttachShader") :
                                              j < n /\ calls[j].h = h}}
        compiled(s) == \E i \in At("GetShaderiv") :
                          /\ i < n /\ calls[i].h = s
                          /\ calls[i].arg = "GL_COMPILE_STATUS" /\ calls[i].ret = 1
    IN  /\ \E i \in At("GetProgramiv") :
              /\ i < n /\ calls[i].h = h
              /\ calls[i].arg = "GL_LINK_STATUS" /\ calls[i].ret = 1
        /\ \A i \in At("GetProgramiv") :
              (i < n /\ calls[i].h = h /\ calls[i].arg = "GL_LINK_STATUS")
                  => calls[i].ret = 1
        /\ attached \cap ShaderAnswers(VS) # {}
        /\ attached \cap ShaderAnswers(FS) # {}
        /\ Cardinality(attached) = 2
        /\ \A s \in attached : compiled(s)

\* C4: UseProgram and DrawElements only with a program found linked, whose
\* two shaders were found compiled.
C4_UsableProgram ==
    /\ \A i \in At("UseProgram") : CheckedBefore(calls[i].h, i)
    /\ activeProgram # 0 =>
          \E i \in At("UseProgram") : calls[i].h = activeProgram
    /\ \A i \in At("DrawElements") :
          calls[i].arg.program # 0 => CheckedBefore(calls[i].arg.program, i)

\* A draw call issued with the checked program in effect.
C4_Witness ==
    /\ activeProgram # 0
    /\ \E i \in At("DrawElements") : calls[i].arg.program = activeProgram

(***************************************************************************)
(* C5: every draw_frame clears the colour and depth buffers and then       *)
(* issues exactly one indexed draw of 6 indices of unsigned 32-bit type,   *)
(* the clear right before the draw; and no draw call is issued unless      *)
(* setup was called (and returned).                                        *)
(***************************************************************************)
C5_DrawFrame ==
    /\ \A i \in At("DrawElements") :
          /\ i > 1 /\ calls[i - 1].api = "Clear"
          /\ calls[i - 1].arg = {"GL_COLOR_BUFFER_BIT", "GL_DEPTH_BUFFER_BIT"}
          /\ calls[i].arg.count = 6
          /\ calls[i].arg.type = "GL_UNSIGNED_INT"
          /\ calls[i].arg.mode = "GL_TRIANGLES"
          /\ calls[i].arg.offset = 0
    /\ \A i \in At("Clear") :
          i < Len(calls) => calls[i + 1].api = "DrawElements"
    \* one clear and one draw per invocation of draw_frame
    /\ pc = "draw_clear"    => Count("Clear") = drawFrames - 1
                               /\ Count("DrawElements") = drawFrames - 1
    /\ pc = "draw_elements" => Count("Clear") = drawFrames
                               /\ Count("DrawElements") = drawFrames - 1
    /\ pc \notin {"draw_clear", "draw_elements"} =>
          Count("Clear") = drawFrames /\ Count("DrawElements") = drawFrames
    /\ (setupCalls = 0 \/ ~setupReturned) =>
          drawFrames = 0 /\ Count("DrawElements") = 0

\* Two frames drawn.
C5_Witness == pc = "swap" /\ drawFrames = 2 /\ Count("DrawElements") = 2

(***************************************************************************)
(* C6: the facade is Uninitialized until a setup in which every step       *)
(* succeeded returns, and Ready from then on.  setup is called at most     *)
(* once, and has returned before any event is handled; draw_frame runs     *)
(* once per redraw event, followed by one buffer swap; a failed step of    *)
(* setup (a zero handle, a compile or link status of 0) leads only to the  *)
(* abort: Ready is not reached, no event is handled, no frame is drawn.    *)
(***************************************************************************)
Ready == setupReturned

\* The driver answered a failure to some step of setup.
StepFailed ==
    \/ \E i \in At("GenVertexArrays") \cup At("GenBuffers")
              \cup At("CreateProgram") \cup At("CreateShader") : calls[i].ret = 0
    \/ 0 \in CompileAnswers(VS) \cup CompileAnswers(FS) \cup LinkAnswers

\* Every step of setup was made, and the driver answered success to each.
AllStepsSucceeded ==
    /\ ~StepFailed
    /\ Count("GenVertexArrays") = 1 /\ Count("GenBuffers") = 2
    /\ Count("CreateProgram") = 1 /\ Count("CreateShader") = 2
    /\ CompileAnswers(VS) = {1} /\ CompileAnswers(FS) = {1} /\ LinkAnswers = {1}
    /\ Count("UseProgram") = 1

LoopPcs == {"loop", "draw_clear", "draw_elements", "swap", "exited"}
\* Where control can be once a step of setup has failed.
FailurePcs == {"fs_info_log", "fs_delete", "fvf_v_ret", "fvf_f_ret",
               "fvf_info_log", "fvf_delete_p", "setup_unwrap", "aborted"}

C6_Inv ==
    /\ setupCalls <= 1
    /\ (eventsHandled > 0 \/ pc \in LoopPcs) => setupCalls = 1 /\ Ready
    /\ Ready => AllStepsSucceeded
    /\ StepFailed => /\ ~Ready /\ pc \in FailurePcs
                     /\ eventsHandled = 0 /\ drawFrames = 0
    /\ drawFrames = redraws
    /\ pc \in {"loop", "exited"} => swaps = redraws
    /\ pc \in {"draw_clear", "draw_elements", "swap"} => swaps = redraws - 1

\* C6: Uninitialized until a fully successful setup returns, Ready ever after;
\* setup before any event, one draw_frame and one swap per redraw.
C6_TwoStates == [](C6_Inv) /\ [][Ready => Ready']_vars

\* The loop was left after two redraws.
C6_Witness == pc = "exited" /\ Ready /\ redraws = 2 /\ swaps = 2

(***************************************************************************)
(* C7: once delete has been issued on a shader or program handle, no       *)
(* further call names that handle (no second delete either); and on the    *)
(* failure paths the info log is queried right before the delete.          *)
(***************************************************************************)
C7_NoUseAfterDelete ==
    /\ \A i \in At("DeleteShader") : \A j \in Idx :
          j > i => ~TouchesShader(calls[j], calls[i].h)
    /\ \A i \in At("DeleteProgram") : \A j \in Idx :
          j > i => ~TouchesProgram(calls[j], calls[i].h)
    /\ \A i \in At("DeleteProgram") :
          i > 1 /\ calls[i - 1].api = "GetProgramInfoLog" /\ calls[i - 1].h = calls[i].h
    /\ \A i \in At("DeleteShader") :
          (\E k \in At("GetShaderiv") : /\ calls[k].h = calls[i].h
                                        /\ calls[k].arg = "GL_COMPILE_STATUS"
                                        /\ calls[k].ret = 0)
              => i > 1 /\ calls[i - 1].api = "GetShaderInfoLog"
                       /\ calls[i - 1].h = calls[i].h

\* The link failed: both shaders and then the program have been deleted.
C7_Witness ==
    /\ FvfReturned
    /\ Count("DeleteShader") = 2 /\ Count("DeleteProgram") = 1

(***************************************************************************)
(* C8, as claimed: in a from_vert_frag call that returns Ok, both shaders  *)
(* were attached before link_program, each shader handle is deleted        *)
(* exactly once, after link_program and only after the link was found      *)
(* successful, and the returned program is never deleted.                  *)
(***************************************************************************)
\* from_vert_frag returned Ok (now or earlier in the run).
FvfOk == fvfResult.ok /\ pc \in {"setup_unwrap", "use_program"} \cup LoopPcs \cup {"aborted"}

\* The one call of an entry point, when it was called exactly once.
The(api) == CHOOSE i \in At(api) : TRUE
LinkFoundAt ==
    CHOOSE i \in At("GetProgramiv") : calls[i].arg = "GL_LINK_STATUS" /\ calls[i].ret = 1

\* Both shaders attached to the returned program before the link, each
\* deleted exactly once after the link, the program never deleted.
SuccessLifecycle ==
    /\ Count("LinkProgram") = 1
    /\ \A s \in {v, f} :
          /\ \E i \in At("AttachShader") :
                calls[i].h = fvfResult.val /\ calls[i].arg = s /\ i < The("LinkProgram")
          /\ Cardinality({i \in At("DeleteShader") : calls[i].h = s}) = 1
          /\ \A i \in At("DeleteShader") : calls[i].h = s => i > The("LinkProgram")
    /\ v # f /\ v # 0 /\ f # 0
    /\ Count("DeleteShader") = 2
    /\ Count("DeleteProgram") = 0
    /\ fvfResult.val = p /\ p \in DOMAIN progObj /\ ~progObj[p].delPending

\* C8 as claimed: on Ok, the shaders are deleted only after the link was
\* found successful.
C8_Original ==
    FvfOk =>
        /\ SuccessLifecycle
        /\ \A i \in At("DeleteShader") : i > LinkFoundAt

(***************************************************************************)
(* C8, amended: in a from_vert_frag call that returns Ok, both shaders     *)
(* were attached before link_program, each shader handle is deleted        *)
(* exactly once, after link_program and before the link status is queried  *)
(* (so whatever the outcome of the link), and the returned program is      *)
(* never deleted.                                                          *)
(***************************************************************************)
C8_Amended ==
    FvfOk =>
        /\ SuccessLifecycle
        /\ \A i \in At("DeleteShader") : i < LinkFoundAt

\* The process ran to its end with the program from_vert_frag returned.
C8_Witness == FvfOk /\ pc = "exited" /\ Count("DeleteShader") = 2

(***************************************************************************)
(* C9: Shader::from_source, on its return.  A zero handle gives Err with   *)
(* no set_source, compile or delete issued.  A compile status of true      *)
(* gives Ok with the allocated handle, not deleted.  A compile status of   *)
(* false gives Err with the shader's info log, queried before the delete,  *)
(* and the handle deleted exactly once.  The calls are made in the order   *)
(* allocate, set_source, compile, compile_success.                         *)
(***************************************************************************)
FsReturned == pc \in {"fvf_v_ret", "fvf_f_ret"}

\* The last n recorded calls.
LastCalls(n) == SubSeq(calls, Len(calls) - n + 1, Len(calls))
\* How many calls make up the invocation of from_source that just returned.
FsCalls ==
    IF fsResult.ok THEN 4
    ELSE IF calls[Len(calls)].api = "CreateShader" THEN 1 ELSE 7

\* The first four calls of an invocation that got a handle h.
FsPrologue(c, h, status) ==
    /\ c[1].api = "CreateShader" /\ c[1].ret = h /\ c[1].arg = ShaderGlenum(ty) /\ h # 0
    /\ c[2].api = "ShaderSource" /\ c[2].h = h /\ c[2].arg = source
    /\ c[3].api = "CompileShader" /\ c[3].h = h
    /\ c[4].api = "GetShaderiv" /\ c[4].h = h /\ c[4].arg = "GL_COMPILE_STATUS"
    /\ c[4].ret = status /\ c[3].ret.status = status

\* C9: what from_source returns and which calls it made, in which order.
C9_FromSource ==
    FsReturned =>
        /\ Len(calls) >= FsCalls
        /\ LET c == LastCalls(FsCalls)
               \* the calls of this invocation start right after the caller's last call
               before == calls[Len(calls) - FsCalls]
           IN  /\ before.api = IF ty = "Vertex" THEN "CreateProgram" ELSE "GetShaderiv"
               /\ source = IF ty = "Vertex" THEN VERT_SHADER ELSE FRAG_SHADER
               /\ CASE FsCalls = 1 ->
                        /\ c[1].ret = 0 /\ c[1].arg = ShaderGlenum(ty)
                        /\ fsResult = Err(<<AllocShaderMsg>>)
                    [] FsCalls = 4 ->
                        /\ FsPrologue(c, id, 1)
                        /\ fsResult = Ok(id)
                        /\ id \in DOMAIN shaderObj /\ ~shaderObj[id].delPending
                        /\ shaderObj[id].src = source
                        /\ \A i \in At("DeleteShader") : calls[i].h # id
                    [] FsCalls = 7 ->
                        /\ FsPrologue(c, id, 0)
                        /\ c[5].api = "GetShaderiv" /\ c[5].h = id
                        /\ c[5].arg = "GL_INFO_LOG_LENGTH"
                        /\ c[6].api = "GetShaderInfoLog" /\ c[6].h = id
                        /\ c[7].api = "DeleteShader" /\ c[7].h = id
                        /\ c[6].ret = c[3].ret.log
                        /\ fsResult = Err(c[3].ret.log)
                        /\ Cardinality({i \in At("DeleteShader") : calls[i].h = id}) = 1
                        /\ id \notin DOMAIN shaderObj

\* The fragment source failed to compile and the driver's log was not empty.
C9_Witness ==
    /\ pc = "fvf_f_ret" /\ ~fsResult.ok
    /\ Len(fsResult.err) = 2 /\ fsResult.err \in DriverLogs

(***************************************************************************)
(* C10: the driver state a successful setup leaves.  The vertex array of   *)
(* setup is bound; each buffer of setup is bound to its own target and     *)
(* holds its own data (the 4 vertices, the indices [[0,1,3],[1,2,3]]),     *)
(* uploaded while it and the vertex array were bound; attribute 0 is 3     *)
(* floats, stride 3 x size-of-float, offset 0, read from the Array buffer, *)
(* and enabled; the linked program is active.                              *)
(***************************************************************************)
ReadU32s(b) == [k \in 1..(Len(b) \div 4) |-> DecodeU32(SubSeq(b, 4 * k - 3, 4 * k), le)]
ReadF32s(b) == [k \in 1..(Len(b) \div 4) |-> DecodeF32(SubSeq(b, 4 * k - 3, 4 * k), le)]

\* C10: bindings, buffer contents, attribute 0 and active program after setup.
C10_SetupState ==
    Ready =>
        /\ vao # 0 /\ vaoBinding = vao
        /\ {calls[i].ret : i \in At("GenVertexArrays")} = {vao}
        /\ vbo # 0 /\ ebo # 0 /\ vbo # ebo
        /\ {calls[i].ret : i \in At("GenBuffers")} = {vbo, ebo}
        /\ bufBinding["GL_ARRAY_BUFFER"] = vbo
        /\ bufBinding["GL_ELEMENT_ARRAY_BUFFER"] = ebo
        /\ Len(bufStore[vbo]) = 48
        /\ ReadF32s(bufStore[vbo]) = Flatten(VERTICES)
        /\ Len(bufStore[ebo]) = 24
        /\ ReadU32s(bufStore[ebo]) = <<0, 1, 3, 1, 2, 3>>
        /\ Count("BufferData") = 2
        /\ \A i \in At("BufferData") :
              /\ calls[i].arg.vao = vao
              /\ calls[i].h = IF calls[i].arg.target = "GL_ARRAY_BUFFER" THEN vbo ELSE ebo
              /\ calls[i].arg.data = bufStore[calls[i].h]
              /\ calls[i].arg.size = Len(calls[i].arg.data)
        /\ {calls[i].arg.target : i \in At("BufferData")}
               = {"GL_ARRAY_BUFFER", "GL_ELEMENT_ARRAY_BUFFER"}
        /\ attrib0 = [size |-> 3, type |-> "GL_FLOAT", normalized |-> 0,
                      stride |-> 12, offset |-> 0, buffer |-> vbo, enabled |-> TRUE]
        /\ activeProgram = p /\ p # 0
        /\ p \in DOMAIN progObj /\ progObj[p].status = 1

\* setup has just returned.
C10_Witness == Ready /\ pc = "loop" /\ eventsHandled = 0 /\ activeProgram # 0

=============================================================================
